---- MODULE Spec2Model ----
(***************************************************************************)
(* Control logic of the ESP32 vending machine (src/Esp32Code.ino):         *)
(* the session state machine driven by card scans and two buttons, and the *)
(* ultrasonic-gated continuous dispensing of one of two servos.            *)
(*                                                                         *)
(* One pass of loop() is the sequence of handler steps                     *)
(*     WiFiCheck -> ControlServoWithUltrasonic -> [CheckRFID -> ReadButtons]*)
(* with pc naming the handler that runs next; pc = "wifi" is the boundary  *)
(* between two passes ("end of tick").  Everything a handler reads from    *)
(* the outside (timer due, WiFi status, echo, card, debounced press edges, *)
(* backend replies) is an input chosen with \E.                            *)
(***************************************************************************)
EXTENDS Integers, Sequences, FiniteSets, TLC

(* ------------------------- program constants --------------------------- *)
SERVO_STOP == 90
SERVO_LEFT_SPEED == 0
SERVO_RIGHT_SPEED == 180
DETECTION_DISTANCE == 30
MAX_PRODUCTS == 10
debounceDelay == 50

(* ------------------------------ bounds --------------------------------- *)
\* longest catalog the backend delivers in the model (the code allows MAX_PRODUCTS)
MaxProducts == 2
\* largest distance, in cm, an echo amounts to in GateSpec
MaxCm == 402

(* --------------------------- input domains ----------------------------- *)
\* prices and balances, in whole pesos: a balance equal to the lower price and
\* one equal to the higher
Prices == {20, 35}
Balances == {20, 35}
\* slotNumber of a catalog record: "1 for tissue (servo1), 2 for sanitary pad
\* (servo2)"; two records may name the same slot, in either order
SlotValues == {1, 2}
\* stock of a catalog record: the code only compares it with 0
Stocks == {0, 1}
\* card UIDs; the backend knows CardA and CardB, CardC is not registered
RegisteredCards == {"CardA", "CardB"}
Cards == RegisteredCards \cup {"CardC"}
NoCard == ""
\* currentUser == NULL
NoUser == [cardUid |-> NoCard, balance |-> -1]
\* echo samples: echo = FALSE is pulseIn() timing out (duration 0); cm is the
\* distance the echo duration amounts to
NoEcho == [echo |-> FALSE, cm |-> 0]
SampleDistances == {1, 30, 31, 401}
Readings == {NoEcho} \cup {[echo |-> TRUE, cm |-> d] : d \in SampleDistances}
\* value of the ghost field dist when a step took no reading
NoReading == -2

States == {"STATE_IDLE", "STATE_WAITING_CARD", "STATE_USER_LOGGED_IN",
           "STATE_PRODUCT_SELECTION", "STATE_DISPENSING",
           "STATE_INSUFFICIENT_BALANCE", "STATE_OUT_OF_STOCK",
           "STATE_WIFI_CONNECTING", "STATE_API_ERROR"}

(* ------------------------------ state ---------------------------------- *)
VARIABLES
  pc,                     \* handler of loop() that runs next ("setup" before setup())
  currentState,
  waitingForCard,
  wifiConnected,
  productsLoaded,
  currentUser,            \* NoUser, or the record the pointer refers to
  lastScannedUID,
  products,               \* products[1..numProducts], index i here is i-1 in the code
  continuousDispensing,
  continuousSlotNumber,
  servoRunning,
  objectDetected,
  tissueServo,            \* last value written to the tissue servo
  sanitaryServo,          \* last value written to the sanitary servo
  ev,                     \* what the last handler step consumed and emitted
  deb,                    \* debounce state of one button (DebounceSpec only)
  gate                    \* a reading and what the gate makes of it (GateSpec only)

vars == <<pc, currentState, waitingForCard, wifiConnected, productsLoaded,
          currentUser, lastScannedUID, products, continuousDispensing,
          continuousSlotNumber, servoRunning, objectDetected, tissueServo,
          sanitaryServo, ev, deb, gate>>

\* The program state as one record, so that a handler is the composition of
\* the functions it calls.  The fields dist, orders, lookups, found, completed
\* and ended collect what the running handler does towards the outside: the
\* distance it read, the orders and user lookups it requested, whether the
\* lookup returned a user, restarts and ended dispensings.
Cur ==
  [currentState |-> currentState, waitingForCard |-> waitingForCard,
   wifiConnected |-> wifiConnected, productsLoaded |-> productsLoaded,
   currentUser |-> currentUser, lastScannedUID |-> lastScannedUID,
   products |-> products, continuousDispensing |-> continuousDispensing,
   continuousSlotNumber |-> continuousSlotNumber, servoRunning |-> servoRunning,
   objectDetected |-> objectDetected, tissueServo |-> tissueServo,
   sanitaryServo |-> sanitaryServo,
   dist |-> NoReading, orders |-> <<>>, lookups |-> 0, found |-> FALSE,
   completed |-> 0, ended |-> 0]

numProducts(s) == Len(s.products)

(* ------------------------- ultrasonic sensor --------------------------- *)
\* mutant: a distance outside 2..400 cm is reported as the error value
getDistanceOutOfRangeIsError(raw) ==
  IF ~raw.echo THEN -1
  ELSE IF raw.cm > 400 \/ raw.cm < 2 THEN -1
  ELSE raw.cm

\* float getDistance(): -1 for no echo, 999 outside 2..400 cm, else the distance
getDistance(raw) ==
  IF ~raw.echo THEN -1
  ELSE IF raw.cm > 400 \/ raw.cm < 2 THEN 999
  ELSE raw.cm

(* ------------------------------ servos --------------------------------- *)
stopCurrentServo(s) ==
  IF s.continuousSlotNumber = 1 THEN [s EXCEPT !.tissueServo = SERVO_STOP]
  ELSE IF s.continuousSlotNumber = 2 THEN [s EXCEPT !.sanitaryServo = SERVO_STOP]
  ELSE s

startCurrentServo(s) ==
  IF s.continuousSlotNumber = 1 THEN [s EXCEPT !.tissueServo = SERVO_RIGHT_SPEED]
  ELSE IF s.continuousSlotNumber = 2 THEN [s EXCEPT !.sanitaryServo = SERVO_LEFT_SPEED]
  ELSE s

\* mutant: the safety stop forgets the sanitary servo
stopAllServosTissueOnly(s) ==
  [s EXCEPT !.tissueServo = SERVO_STOP, !.servoRunning = FALSE]

stopAllServos(s) ==
  [s EXCEPT !.tissueServo = SERVO_STOP, !.sanitaryServo = SERVO_STOP,
            !.servoRunning = FALSE]

(* --------------------- affordability evaluation ------------------------ *)
\* the canPurchase loop shared by login, re-scan, welcome screen and end of dispensing
canPurchase(s) ==
  \E i \in 1..numProducts(s) :
     s.currentUser.balance >= s.products[i].price /\ s.products[i].stock > 0

hasBalance(s) ==
  \E i \in 1..numProducts(s) : s.currentUser.balance >= s.products[i].price

hasStock(s) ==
  \E i \in 1..numProducts(s) : s.products[i].stock > 0

displayInsufficientBalance(s) == [s EXCEPT !.currentState = "STATE_INSUFFICIENT_BALANCE"]

displayOutOfStock(s) == [s EXCEPT !.currentState = "STATE_OUT_OF_STOCK"]

\* the else-branch after canPurchase failed: the state is written only when
\* no product is affordable or no product is in stock
whyCannotPurchase(s) ==
  IF ~hasBalance(s) THEN displayInsufficientBalance(s)
  ELSE IF ~hasStock(s) THEN displayOutOfStock(s)
  ELSE s

\* mutant: the welcome screen shows the balance and evaluates nothing
displayWelcomeOnly(s) == s

displayWelcomeAndCheckBalance(s) ==
  IF s.currentUser = NoUser THEN s
  ELSE IF canPurchase(s) THEN [s EXCEPT !.currentState = "STATE_PRODUCT_SELECTION"]
  ELSE whyCannotPurchase(s)

\* the evaluation after a known card: login and same-card re-scan share it
evaluateAfterScan(s) ==
  IF canPurchase(s)
  THEN displayWelcomeAndCheckBalance([s EXCEPT !.currentState = "STATE_USER_LOGGED_IN"])
  ELSE whyCannotPurchase(s)

RECURSIVE minPriceFrom(_, _, _)
minPriceFrom(s, i, m) ==
  IF i > numProducts(s) THEN m
  ELSE minPriceFrom(s, i + 1, IF s.products[i].price < m THEN s.products[i].price ELSE m)

getMinProductPrice(s) ==
  IF numProducts(s) = 0 THEN 999999 ELSE minPriceFrom(s, 2, s.products[1].price)

(* ------------------------ dispense controller -------------------------- *)
\* mutant: the restart forgets to end continuous dispensing
restartKeepsSession(s) ==
  [stopAllServos(s) EXCEPT !.servoRunning = FALSE,
                           !.objectDetected = FALSE,
                           !.currentUser = NoUser,
                           !.currentState = "STATE_IDLE",
                           !.waitingForCard = FALSE,
                           !.completed = s.completed + 1]

\* mutant: the restart keeps the user logged in and re-evaluates
restartKeepsUser(s) ==
  displayWelcomeAndCheckBalance(
    [stopAllServos(s) EXCEPT !.continuousDispensing = FALSE,
                             !.continuousSlotNumber = 0,
                             !.servoRunning = FALSE,
                             !.objectDetected = FALSE,
                             !.currentState = "STATE_IDLE",
                             !.waitingForCard = FALSE,
                             !.completed = s.completed + 1])

\* mutant: the restart leaves objectDetected as the gate step set it
restartLeavesObjectDetected(s) ==
  [stopAllServos(s) EXCEPT !.continuousDispensing = FALSE,
                           !.continuousSlotNumber = 0,
                           !.servoRunning = FALSE,
                           !.currentUser = NoUser,
                           !.currentState = "STATE_IDLE",
                           !.waitingForCard = FALSE,
                           !.completed = s.completed + 1]

\* restartToRFIDScanning(): the forced restart after "Successfully Dispensed!"
restartToRFIDScanning(s) ==
  [stopAllServos(s) EXCEPT !.continuousDispensing = FALSE,
                           !.continuousSlotNumber = 0,
                           !.servoRunning = FALSE,
                           !.objectDetected = FALSE,
                           !.currentUser = NoUser,
                           !.currentState = "STATE_IDLE",
                           !.waitingForCard = FALSE,
                           !.completed = s.completed + 1]

\* mutant: an obstruction completes the dispense whether or not the servo runs
onObstructionAlwaysCompletes(t) ==
  restartToRFIDScanning(
    [stopCurrentServo([t EXCEPT !.servoRunning = FALSE])
       EXCEPT !.objectDetected = TRUE])

\* mutant: a Clear reading never starts the servo of a stopped session
onClearNeverStarts(t) == t

\* what gateStep does on a reading at or below the threshold, and above it
onObstruction(t) ==
  IF t.servoRunning
  THEN restartToRFIDScanning(
         [stopCurrentServo([t EXCEPT !.servoRunning = FALSE])
            EXCEPT !.objectDetected = TRUE])
  ELSE t

onClear(t) ==
  IF ~t.servoRunning /\ t.objectDetected
  THEN [startCurrentServo([t EXCEPT !.servoRunning = TRUE])
          EXCEPT !.objectDetected = FALSE]
  ELSE IF ~t.servoRunning /\ ~t.objectDetected
  THEN startCurrentServo([t EXCEPT !.servoRunning = TRUE])
  ELSE t

\* mutant: the distance >= 0 check is missing, so -1 counts as "30 cm or below"
gateStepNoValidityCheck(s, distance) ==
  LET t == [s EXCEPT !.dist = distance] IN
  IF ~t.continuousDispensing THEN t
  ELSE IF distance <= DETECTION_DISTANCE THEN onObstruction(t)
  ELSE onClear(t)

\* mutant: the error reading falls into the "no object" branch, as it does in
\* dispenseProduct()
gateStepInvalidAsClear(s, distance) ==
  LET t == [s EXCEPT !.dist = distance] IN
  IF ~t.continuousDispensing THEN t
  ELSE IF distance >= 0 /\ distance <= DETECTION_DISTANCE THEN onObstruction(t)
  ELSE onClear(t)

\* body of controlServoWithUltrasonic() once CHECK_INTERVAL has elapsed;
\* distance is what getDistance() returned
gateStep(s, distance) ==
  LET t == [s EXCEPT !.dist = distance] IN
  IF ~t.continuousDispensing THEN t
  ELSE IF distance >= 0
  THEN IF distance <= DETECTION_DISTANCE THEN onObstruction(t) ELSE onClear(t)
  ELSE t

\* mutant: the initial check uses < instead of <= DETECTION_DISTANCE
beginSlotStrictThreshold(s, slotNumber, raw) ==
  LET initialDistance == getDistance(raw)
      t == [s EXCEPT !.continuousDispensing = TRUE,
                     !.continuousSlotNumber = slotNumber,
                     !.dist = initialDistance]
  IN IF initialDistance >= 0 /\ initialDistance < DETECTION_DISTANCE
     THEN stopCurrentServo([t EXCEPT !.servoRunning = FALSE, !.objectDetected = TRUE])
     ELSE startCurrentServo([t EXCEPT !.servoRunning = TRUE, !.objectDetected = FALSE])

\* one branch of dispenseProduct(): begin continuous dispensing on slotNumber
beginSlot(s, slotNumber, raw) ==
  LET initialDistance == getDistance(raw)
      t == [s EXCEPT !.continuousDispensing = TRUE,
                     !.continuousSlotNumber = slotNumber,
                     !.dist = initialDistance]
  IN IF initialDistance >= 0 /\ initialDistance <= DETECTION_DISTANCE
     THEN stopCurrentServo([t EXCEPT !.servoRunning = FALSE, !.objectDetected = TRUE])
     ELSE startCurrentServo([t EXCEPT !.servoRunning = TRUE, !.objectDetected = FALSE])

dispenseProduct(s, slotNumber, raw) ==
  IF slotNumber = 1 THEN beginSlot(s, 1, raw)
  ELSE IF slotNumber = 2 THEN beginSlot(s, 2, raw)
  ELSE s

displayPurchaseSuccess(s) == stopAllServos(s)

\* mutant: an ended dispense goes back to product selection
endContinuousDispensingToSelection(s) ==
  LET t == [stopAllServos(s) EXCEPT !.continuousDispensing = FALSE,
                                    !.continuousSlotNumber = 0,
                                    !.servoRunning = FALSE,
                                    !.objectDetected = FALSE,
                                    !.ended = s.ended + 1]
      u == IF t.currentUser # NoUser THEN displayPurchaseSuccess(t) ELSE t
  IN IF u.currentUser # NoUser
     THEN IF canPurchase(u) THEN [u EXCEPT !.currentState = "STATE_PRODUCT_SELECTION"]
          ELSE IF u.currentUser.balance < getMinProductPrice(u)
               THEN displayInsufficientBalance(u)
               ELSE displayOutOfStock(u)
     ELSE [u EXCEPT !.currentState = "STATE_IDLE"]

\* mutant: an ended dispense keeps the slot number of the session
endContinuousDispensingKeepsSlot(s) ==
  LET t == [stopAllServos(s) EXCEPT !.continuousDispensing = FALSE,
                                    !.servoRunning = FALSE,
                                    !.objectDetected = FALSE,
                                    !.ended = s.ended + 1]
      u == IF t.currentUser # NoUser THEN displayPurchaseSuccess(t) ELSE t
  IN IF u.currentUser # NoUser
     THEN IF canPurchase(u) THEN [u EXCEPT !.currentState = "STATE_IDLE"]
          ELSE IF u.currentUser.balance < getMinProductPrice(u)
               THEN displayInsufficientBalance(u)
               ELSE displayOutOfStock(u)
     ELSE [u EXCEPT !.currentState = "STATE_IDLE"]

endContinuousDispensing(s) ==
  LET t == [stopAllServos(s) EXCEPT !.continuousDispensing = FALSE,
                                    !.continuousSlotNumber = 0,
                                    !.servoRunning = FALSE,
                                    !.objectDetected = FALSE,
                                    !.ended = s.ended + 1]
      u == IF t.currentUser # NoUser THEN displayPurchaseSuccess(t) ELSE t
  IN IF u.currentUser # NoUser
     THEN IF canPurchase(u) THEN [u EXCEPT !.currentState = "STATE_IDLE"]
          ELSE IF u.currentUser.balance < getMinProductPrice(u)
               THEN displayInsufficientBalance(u)
               ELSE displayOutOfStock(u)
     ELSE [u EXCEPT !.currentState = "STATE_IDLE"]

(* ------------------------------ backend -------------------------------- *)
\* Replies to POST /orders.  http: "connfail" (httpCode <= 0), "error" (any
\* code but 200/201), "ok".  For "ok": valid = the body parses and carries
\* success == true and data; credits = data.user.credits, -1 when absent;
\* pid = data.product._id, 0 when data has no product, MaxProducts + 1 for
\* an id no catalog record has; stock = data.product.stock
NoCredits == -1
OrderFailures ==
  {[http |-> h, valid |-> FALSE, credits |-> NoCredits, pid |-> 0, stock |-> 0] :
     h \in {"connfail", "error"}}
OrderReplies ==
  {[http |-> "ok", valid |-> FALSE, credits |-> NoCredits, pid |-> 0, stock |-> 0]}
  \cup {[http |-> "ok", valid |-> TRUE, credits |-> c, pid |-> 0, stock |-> 0] :
          c \in Balances \cup {NoCredits}}
  \cup {[http |-> "ok", valid |-> TRUE, credits |-> c, pid |-> p, stock |-> k] :
          c \in Balances \cup {NoCredits}, p \in 1..(MaxProducts + 1), k \in Stocks}
OrderResponses == OrderFailures \cup OrderReplies

\* the stock update loop of createOrder(): the first record with the id
updateStock(s, pid, stock) ==
  LET hits == {i \in 1..numProducts(s) : s.products[i].id = pid} IN
  IF hits = {} THEN s
  ELSE LET first == CHOOSE i \in hits : \A j \in hits : i <= j
       IN [s EXCEPT !.products[first].stock = stock]

\* bool createOrder(userId, productId): the state after the call, and the
\* returned flag in ok.  idx is the index of the product the order names.
\* The request is logged in orders with the returned flag and with what the
\* call did to the ledger: bal = the balance of the current user was written
\* from the reply, stk = the stock of the ordered product was.
createOrder(s, idx, resp) ==
  IF ~s.wifiConnected THEN [s |-> s, ok |-> FALSE]
  ELSE
    LET success == resp.http = "ok"
        bal == success /\ resp.valid /\ s.currentUser # NoUser
               /\ resp.credits # NoCredits
        stk == success /\ resp.valid /\ resp.pid # 0
               /\ idx + 1 \in 1..numProducts(s)
               /\ s.products[idx + 1].id = resp.pid
               /\ \A j \in 1..idx : s.products[j].id # resp.pid
        req == [s EXCEPT !.orders = Append(s.orders, [idx |-> idx, ok |-> success,
                                                     bal |-> bal, stk |-> stk])]
        a == IF success /\ resp.valid /\ req.currentUser # NoUser
                /\ resp.credits # NoCredits
             THEN [req EXCEPT !.currentUser.balance = resp.credits]
             ELSE req
        b == IF success /\ resp.valid /\ resp.pid # 0
             THEN updateStock(a, resp.pid, resp.stock)
             ELSE a
    IN [s |-> b, ok |-> success]

(* --------------------------- business logic ---------------------------- *)
\* mutant: the stock check is missing
processPurchaseNoStockCheck(s, productIndex, resp, raw) ==
  IF s.currentUser = NoUser THEN s
  ELSE IF productIndex < 0 \/ productIndex >= numProducts(s) THEN s
  ELSE
    LET product == s.products[productIndex + 1] IN
    IF s.currentUser.balance >= product.price
    THEN LET r == createOrder([s EXCEPT !.currentState = "STATE_DISPENSING"],
                              productIndex, resp)
         IN IF r.ok
            THEN dispenseProduct(r.s, r.s.products[productIndex + 1].slotNumber, raw)
            ELSE displayWelcomeAndCheckBalance(
                   [r.s EXCEPT !.currentState = "STATE_USER_LOGGED_IN"])
    ELSE displayInsufficientBalance(s)

\* mutant: a failed order leaves STATE_DISPENSING in place
processPurchaseKeepsDispensing(s, productIndex, resp, raw) ==
  IF s.currentUser = NoUser THEN s
  ELSE IF productIndex < 0 \/ productIndex >= numProducts(s) THEN s
  ELSE
    LET product == s.products[productIndex + 1] IN
    IF product.stock <= 0 THEN displayOutOfStock(s)
    ELSE IF s.currentUser.balance >= product.price
    THEN LET r == createOrder([s EXCEPT !.currentState = "STATE_DISPENSING"],
                              productIndex, resp)
         IN IF r.ok
            THEN dispenseProduct(r.s, r.s.products[productIndex + 1].slotNumber, raw)
            ELSE r.s
    ELSE displayInsufficientBalance(s)

\* mutant: the stock of the product is decremented locally before the order
processPurchaseLocalDecrement(s, productIndex, resp, raw) ==
  IF s.currentUser = NoUser THEN s
  ELSE IF productIndex < 0 \/ productIndex >= numProducts(s) THEN s
  ELSE
    LET product == s.products[productIndex + 1] IN
    IF product.stock <= 0 THEN displayOutOfStock(s)
    ELSE IF s.currentUser.balance >= product.price
    THEN LET r == createOrder([s EXCEPT !.currentState = "STATE_DISPENSING",
                                        !.products[productIndex + 1].stock =
                                           product.stock - 1],
                              productIndex, resp)
         IN IF r.ok
            THEN dispenseProduct(r.s, r.s.products[productIndex + 1].slotNumber, raw)
            ELSE displayWelcomeAndCheckBalance(
                   [r.s EXCEPT !.currentState = "STATE_USER_LOGGED_IN"])
    ELSE displayInsufficientBalance(s)

\* processPurchase(productIndex), productIndex counted from 0 as in the code
processPurchase(s, productIndex, resp, raw) ==
  IF s.currentUser = NoUser THEN s
  ELSE IF productIndex < 0 \/ productIndex >= numProducts(s) THEN s
  ELSE
    LET product == s.products[productIndex + 1] IN
    IF product.stock <= 0 THEN displayOutOfStock(s)
    ELSE IF s.currentUser.balance >= product.price
    THEN LET r == createOrder([s EXCEPT !.currentState = "STATE_DISPENSING"],
                              productIndex, resp)
         IN IF r.ok
            THEN dispenseProduct(r.s, r.s.products[productIndex + 1].slotNumber, raw)
            ELSE displayWelcomeAndCheckBalance(
                   [r.s EXCEPT !.currentState = "STATE_USER_LOGGED_IN"])
    ELSE displayInsufficientBalance(s)

logoutUser(s) ==
  stopAllServos([s EXCEPT !.currentUser = NoUser,
                          !.currentState = "STATE_IDLE",
                          !.lastScannedUID = NoCard])

button1Pressed(s, resp, raw) ==
  CASE s.currentState = "STATE_IDLE" ->
         [s EXCEPT !.currentState = "STATE_WAITING_CARD", !.waitingForCard = TRUE]
    [] s.currentState = "STATE_USER_LOGGED_IN" -> displayWelcomeAndCheckBalance(s)
    [] s.currentState = "STATE_PRODUCT_SELECTION" ->
         IF s.currentUser # NoUser THEN processPurchase(s, 0, resp, raw) ELSE s
    [] s.currentState = "STATE_WAITING_CARD" ->
         [s EXCEPT !.waitingForCard = FALSE, !.currentState = "STATE_IDLE"]
    [] s.currentState = "STATE_DISPENSING" ->
         IF s.continuousDispensing THEN endContinuousDispensing(s) ELSE s
    [] OTHER -> s

\* mutant: button 2 places an order for the second product during dispensing
button2PressedBuysWhileDispensing(s, resp, raw) ==
  CASE s.currentState = "STATE_IDLE" ->
         [s EXCEPT !.currentState = "STATE_WAITING_CARD", !.waitingForCard = TRUE]
    [] s.currentState = "STATE_USER_LOGGED_IN" -> logoutUser(s)
    [] s.currentState \in {"STATE_PRODUCT_SELECTION", "STATE_DISPENSING"} ->
         IF s.currentUser # NoUser /\ numProducts(s) > 1
         THEN processPurchase(s, 1, resp, raw) ELSE s
    [] s.currentState = "STATE_WAITING_CARD" ->
         [s EXCEPT !.waitingForCard = FALSE, !.currentState = "STATE_IDLE"]
    [] s.currentState \in {"STATE_INSUFFICIENT_BALANCE", "STATE_OUT_OF_STOCK"} ->
         [s EXCEPT !.currentState = "STATE_IDLE"]
    [] OTHER -> s

\* mutant: button 2 does nothing in STATE_OUT_OF_STOCK
button2PressedOutOfStockNoOp(s, resp, raw) ==
  CASE s.currentState = "STATE_IDLE" ->
         [s EXCEPT !.currentState = "STATE_WAITING_CARD", !.waitingForCard = TRUE]
    [] s.currentState = "STATE_USER_LOGGED_IN" -> logoutUser(s)
    [] s.currentState = "STATE_PRODUCT_SELECTION" ->
         IF s.currentUser # NoUser /\ numProducts(s) > 1
         THEN processPurchase(s, 1, resp, raw) ELSE s
    [] s.currentState = "STATE_WAITING_CARD" ->
         [s EXCEPT !.waitingForCard = FALSE, !.currentState = "STATE_IDLE"]
    [] s.currentState = "STATE_DISPENSING" ->
         IF s.continuousDispensing THEN endContinuousDispensing(s) ELSE s
    [] s.currentState = "STATE_INSUFFICIENT_BALANCE" ->
         [s EXCEPT !.currentState = "STATE_IDLE"]
    [] OTHER -> s

button2Pressed(s, resp, raw) ==
  CASE s.currentState = "STATE_IDLE" ->
         [s EXCEPT !.currentState = "STATE_WAITING_CARD", !.waitingForCard = TRUE]
    [] s.currentState = "STATE_USER_LOGGED_IN" -> logoutUser(s)
    [] s.currentState = "STATE_PRODUCT_SELECTION" ->
         IF s.currentUser # NoUser /\ numProducts(s) > 1
         THEN processPurchase(s, 1, resp, raw) ELSE s
    [] s.currentState = "STATE_WAITING_CARD" ->
         [s EXCEPT !.waitingForCard = FALSE, !.currentState = "STATE_IDLE"]
    [] s.currentState = "STATE_DISPENSING" ->
         IF s.continuousDispensing THEN endContinuousDispensing(s) ELSE s
    [] s.currentState \in {"STATE_INSUFFICIENT_BALANCE", "STATE_OUT_OF_STOCK"} ->
         [s EXCEPT !.currentState = "STATE_IDLE"]
    [] OTHER -> s

(* ------------------------------ card scan ------------------------------ *)
\* Outcome of GET /users for a card: found = the list holds a user with this
\* rfid_tag and could be read; a lookup that fails (transport, HTTP code,
\* parse) returns NULL like an unknown card.  CardC is never found.
NotFound == [found |-> FALSE, balance |-> -1]
LookupReplies(card) ==
  {NotFound} \cup
  (IF card \in RegisteredCards
   THEN {[found |-> TRUE, balance |-> b] : b \in Balances}
   ELSE {})

\* User* findUserByCardUID(cardUid): the state after the call, and the returned
\* user (NoUser for NULL)
findUserByCardUID(s, cardUid, reply) ==
  IF ~s.wifiConnected THEN [s |-> s, user |-> NoUser]
  ELSE [s |-> [s EXCEPT !.lookups = s.lookups + 1, !.found = reply.found],
        user |-> IF reply.found
                 THEN [cardUid |-> cardUid, balance |-> reply.balance]
                 ELSE NoUser]

processRFIDLogin(s, cardUid, reply) ==
  LET r == findUserByCardUID(s, cardUid, reply) IN
  IF r.user # NoUser
  THEN evaluateAfterScan([r.s EXCEPT !.currentUser = r.user, !.waitingForCard = FALSE])
  ELSE r.s

\* mutant: the card of the current user is looked up like any other card
checkUserBalanceAlwaysLooksUp(s, cardUid, reply) ==
  processRFIDLogin(s, cardUid, reply)

checkUserBalance(s, cardUid, reply) ==
  IF s.currentUser # NoUser /\ cardUid = s.currentUser.cardUid
  THEN evaluateAfterScan(s)
  ELSE processRFIDLogin(s, cardUid, reply)

\* mutant: a card scanned during dispensing is handled as in a logged-in state
checkRFIDAlsoWhileDispensing(s, cardUid, reply) ==
  IF cardUid = NoCard THEN s
  ELSE
    LET t == [s EXCEPT !.lastScannedUID = cardUid] IN
    CASE t.currentState \in {"STATE_IDLE", "STATE_WAITING_CARD"} ->
           processRFIDLogin(t, cardUid, reply)
      [] t.currentState \in {"STATE_USER_LOGGED_IN", "STATE_PRODUCT_SELECTION",
                             "STATE_INSUFFICIENT_BALANCE", "STATE_OUT_OF_STOCK",
                             "STATE_DISPENSING"} ->
           checkUserBalance(t, cardUid, reply)
      [] OTHER -> t

\* checkRFID() with the card the reader presents (NoCard: none)
checkRFID(s, cardUid, reply) ==
  IF cardUid = NoCard THEN s
  ELSE
    LET t == [s EXCEPT !.lastScannedUID = cardUid] IN
    CASE t.currentState \in {"STATE_IDLE", "STATE_WAITING_CARD"} ->
           processRFIDLogin(t, cardUid, reply)
      [] t.currentState \in {"STATE_USER_LOGGED_IN", "STATE_PRODUCT_SELECTION",
                             "STATE_INSUFFICIENT_BALANCE", "STATE_OUT_OF_STOCK"} ->
           checkUserBalance(t, cardUid, reply)
      [] OTHER -> t

\* readButtons() once the debounce has committed the levels: p1 / p2 say
\* whether button 1 / button 2 commits a press (stable level LOW) in this poll;
\* in1 / in2 are the backend reply and the echo a purchase by that button gets
readButtons(s, p1, p2, in1, in2) ==
  LET a == IF p1 THEN button1Pressed(s, in1.resp, in1.raw) ELSE s
  IN IF p2 THEN button2Pressed(a, in2.resp, in2.raw) ELSE a

(* --------------------------- WiFi and catalog -------------------------- *)
\* connectToWiFi(): ok = WiFi.status() is WL_CONNECTED within the 20 attempts
connectToWiFi(s, ok) ==
  IF ok THEN [s EXCEPT !.wifiConnected = TRUE, !.currentState = "STATE_IDLE"]
  ELSE [s EXCEPT !.currentState = "STATE_WIFI_CONNECTING"]

ProductAttrs == [price : Prices, slotNumber : SlotValues, stock : Stocks]
\* product lists the backend can deliver; the _id of a record is its position
Catalogs ==
  UNION {{[i \in 1..n |-> [id |-> i, price |-> f[i].price,
                           slotNumber |-> f[i].slotNumber, stock |-> f[i].stock]] :
            f \in [1..n -> ProductAttrs]} : n \in 0..MaxProducts}
\* replies to GET /products: "connfail" (httpCode <= 0), "error" (not 200),
\* "invalid" (parse error or wrong shape), "ok" with the list in data
FetchReplies ==
  {[http |-> h, data |-> <<>>] : h \in {"connfail", "error", "invalid"}}
  \cup {[http |-> "ok", data |-> c] : c \in Catalogs}

fetchProductsFromAPI(s, reply) ==
  IF ~s.wifiConnected THEN s
  ELSE IF reply.http = "connfail" THEN [s EXCEPT !.currentState = "STATE_API_ERROR"]
  ELSE IF reply.http = "ok"
  THEN [s EXCEPT !.products =
                    IF Len(reply.data) > MAX_PRODUCTS
                    THEN SubSeq(reply.data, 1, MAX_PRODUCTS) ELSE reply.data,
                 !.productsLoaded = TRUE]
  ELSE s

\* the first block of loop(): due = wifiCheckInterval has elapsed, status =
\* WiFi.status() == WL_CONNECTED (read only when due), ok = connectToWiFi()
\* gets connected (tried only when the status is not connected)
wifiCheck(s, due, status, ok) ==
  IF due /\ ~status
  THEN connectToWiFi([s EXCEPT !.wifiConnected = FALSE, !.productsLoaded = FALSE,
                               !.currentState = "STATE_WIFI_CONNECTING"], ok)
  ELSE s

\* controlServoWithUltrasonic(): due = CHECK_INTERVAL has elapsed; the echo
\* is read only then
controlServoWithUltrasonic(s, due, raw) ==
  IF due THEN gateStep(s, getDistance(raw)) ELSE s

(* ------------------------------ actions -------------------------------- *)
\* the step record: the handler that ran, what it read, what it emitted
Event(op, card, b1, b2, t) ==
  [op |-> op, card |-> card, b1 |-> b1, b2 |-> b2, dist |-> t.dist,
   orders |-> t.orders, lookups |-> t.lookups, found |-> t.found,
   completed |-> t.completed, ended |-> t.ended]

Set(t) ==
  /\ currentState' = t.currentState
  /\ waitingForCard' = t.waitingForCard
  /\ wifiConnected' = t.wifiConnected
  /\ productsLoaded' = t.productsLoaded
  /\ currentUser' = t.currentUser
  /\ lastScannedUID' = t.lastScannedUID
  /\ products' = t.products
  /\ continuousDispensing' = t.continuousDispensing
  /\ continuousSlotNumber' = t.continuousSlotNumber
  /\ servoRunning' = t.servoRunning
  /\ objectDetected' = t.objectDetected
  /\ tissueServo' = t.tissueServo
  /\ sanitaryServo' = t.sanitaryServo
  /\ deb' = deb
  /\ gate' = gate

\* the globals as their initialisers leave them
InitProgram ==
  /\ pc = "setup"
  /\ currentState = "STATE_WIFI_CONNECTING"
  /\ waitingForCard = FALSE
  /\ wifiConnected = FALSE
  /\ productsLoaded = FALSE
  /\ currentUser = NoUser
  /\ lastScannedUID = NoCard
  /\ products = <<>>
  /\ continuousDispensing = FALSE
  /\ continuousSlotNumber = 0
  /\ servoRunning = FALSE
  /\ objectDetected = FALSE
  /\ tissueServo = SERVO_STOP
  /\ sanitaryServo = SERVO_STOP
  /\ ev = Event("init", NoCard, FALSE, FALSE, Cur)

\* Spec leaves the debounce to the inputs p1 / p2 of ReadButtons
NoDebounce == [btn |-> 0]

\* Spec draws the readings of the gate from SampleDistances
NoGate == [done |-> FALSE]

Init == InitProgram /\ deb = NoDebounce /\ gate = NoGate

\* setup(): both servos written SERVO_STOP, connectToWiFi(), fetchProductsFromAPI()
Setup ==
  /\ pc = "setup"
  /\ \E ok \in BOOLEAN, reply \in FetchReplies :
       LET t == fetchProductsFromAPI(
                  connectToWiFi([Cur EXCEPT !.tissueServo = SERVO_STOP,
                                            !.sanitaryServo = SERVO_STOP], ok), reply)
       IN Set(t) /\ ev' = Event("setup", NoCard, FALSE, FALSE, t)
  /\ pc' = "wifi"

WiFiCheck ==
  /\ pc = "wifi"
  /\ \E due \in BOOLEAN :
       \E status \in IF due THEN BOOLEAN ELSE {TRUE} :
         \E ok \in IF status THEN {TRUE} ELSE BOOLEAN :
           LET t == wifiCheck(Cur, due, status, ok)
           IN Set(t) /\ ev' = Event("wifi", NoCard, FALSE, FALSE, t)
  /\ pc' = "ctrl"

\* mutant: card and buttons are polled whatever wifiConnected and productsLoaded
ControlServoThenAlwaysPoll ==
  /\ pc = "ctrl"
  /\ \E due \in BOOLEAN :
       \E raw \in IF due THEN Readings ELSE {NoEcho} :
         LET t == controlServoWithUltrasonic(Cur, due, raw)
         IN /\ Set(t)
            /\ ev' = Event("ctrl", NoCard, FALSE, FALSE, t)
            /\ pc' = "rfid"

\* after the gate step loop() polls card and buttons only if
\* wifiConnected && productsLoaded; otherwise the pass is over
ControlServoWithUltrasonic ==
  /\ pc = "ctrl"
  /\ \E due \in BOOLEAN :
       \E raw \in IF due THEN Readings ELSE {NoEcho} :
         LET t == controlServoWithUltrasonic(Cur, due, raw)
         IN /\ Set(t)
            /\ ev' = Event("ctrl", NoCard, FALSE, FALSE, t)
            /\ pc' = IF t.wifiConnected /\ t.productsLoaded THEN "rfid" ELSE "wifi"

CheckRFID ==
  /\ pc = "rfid"
  /\ \E card \in Cards \cup {NoCard} :
       \E reply \in LookupReplies(card) :
         LET t == checkRFID(Cur, card, reply)
         IN Set(t) /\ ev' = Event("rfid", card, FALSE, FALSE, t)
  /\ pc' = "buttons"

\* what a press handler reads from the outside: a reply to POST /orders when
\* processPurchase(productIndex) gets as far as createOrder(), and an echo
\* when that order succeeds; nothing otherwise
NoInput == [resp |-> CHOOSE r \in OrderFailures : r.http = "connfail", raw |-> NoEcho]
PurchaseInputs(s, productIndex) ==
  IF /\ s.currentState = "STATE_PRODUCT_SELECTION"
     /\ s.currentUser # NoUser
     /\ productIndex < numProducts(s)
     /\ s.products[productIndex + 1].stock > 0
     /\ s.currentUser.balance >= s.products[productIndex + 1].price
  THEN {[resp |-> r, raw |-> NoEcho] : r \in OrderFailures}
       \cup {[resp |-> r, raw |-> w] : r \in OrderReplies, w \in Readings}
  ELSE {NoInput}

ReadButtons ==
  /\ pc = "buttons"
  /\ \E p1 \in BOOLEAN, p2 \in BOOLEAN :
       \E in1 \in IF p1 THEN PurchaseInputs(Cur, 0) ELSE {NoInput} :
         \E in2 \in IF p2
                    THEN PurchaseInputs(
                           IF p1 THEN button1Pressed(Cur, in1.resp, in1.raw) ELSE Cur, 1)
                    ELSE {NoInput} :
           LET t == readButtons(Cur, p1, p2, in1, in2)
           IN Set(t) /\ ev' = Event("buttons", NoCard, p1, p2, t)
  /\ pc' = "wifi"

Next == Setup \/ WiFiCheck \/ ControlServoWithUltrasonic \/ CheckRFID \/ ReadButtons

Spec == Init /\ [][Next]_vars

\* loop() is called again and again: a pass that can continue does continue.
\* The timers of the WiFi check and of the gate step need no fairness of
\* their own: a check that is due and finds WiFi connected is the same step
\* as a check that is not due.
LiveSpec == Init /\ [][Next]_vars /\ WF_vars(Next)

(* ----------------------- dispensing to the end ------------------------- *)
\* SessionLiveSpec is LiveSpec booted against one catalog, a tissue on slot 1
\* and a pad on slot 2: how a dispense session proceeds does not depend on
\* the catalog beyond the slot of the product bought.
TissueAndPad ==
  <<[id |-> 1, price |-> 20, slotNumber |-> 1, stock |-> 1],
    [id |-> 2, price |-> 35, slotNumber |-> 2, stock |-> 1]>>

SessionSetup ==
  /\ pc = "setup"
  /\ \E ok \in BOOLEAN, reply \in {r \in FetchReplies : r.http = "ok" => r.data = TissueAndPad} :
       LET t == fetchProductsFromAPI(
                  connectToWiFi([Cur EXCEPT !.tissueServo = SERVO_STOP,
                                            !.sanitaryServo = SERVO_STOP], ok), reply)
       IN Set(t) /\ ev' = Event("setup", NoCard, FALSE, FALSE, t)
  /\ pc' = "wifi"

SessionNext ==
  SessionSetup \/ WiFiCheck \/ ControlServoWithUltrasonic \/ CheckRFID \/ ReadButtons

SessionLiveSpec == Init /\ [][SessionNext]_vars /\ WF_vars(SessionNext)

(* ------------------------- button debounce ----------------------------- *)
\* DebounceSpec follows one button (deb.btn) through readButtons() in time.
\* deb.age is millis() - lastDebounceTime, counted up to debounceDelay + 1
\* (the code only asks whether it exceeds debounceDelay).  The button itself
\* is up, pressing (contacts bouncing), down or releasing (bouncing); deb.e is
\* the time since the bounce began.  deb.count counts the calls of the press
\* handler since the press began, deb.flips the polls of that press that read
\* another level than the poll before.
Levels == {"HIGH", "LOW"}
LongestBounce == debounceDelay - 1
Bouncing == deb.phase \in {"pressing", "releasing"}

\* mutant: the level is committed without waiting for debounceDelay
debounceNoDelay(d, reading) ==
  LET age == IF reading # d.lastButtonState THEN 0 ELSE d.age
      commit == reading # d.buttonState
  IN [d EXCEPT !.age = age,
               !.buttonState = IF commit THEN reading ELSE @,
               !.lastButtonState = reading,
               !.pressed = commit /\ reading = "LOW"]

\* the block of readButtons() for one button, followed by the assignment to
\* lastButtonNState; pressed = buttonNPressed() was called
debounce(d, reading) ==
  LET age == IF reading # d.lastButtonState THEN 0 ELSE d.age
      commit == age > debounceDelay /\ reading # d.buttonState
  IN [d EXCEPT !.age = age,
               !.buttonState = IF commit THEN reading ELSE @,
               !.lastButtonState = reading,
               !.pressed = commit /\ reading = "LOW"]

progVars == <<pc, currentState, waitingForCard, wifiConnected, productsLoaded,
              currentUser, lastScannedUID, products, continuousDispensing,
              continuousSlotNumber, servoRunning, objectDetected, tissueServo,
              sanitaryServo, ev>>

\* buttonNState is a global without initialiser (0, the value of LOW),
\* lastButtonNState starts HIGH and lastDebounceTimeN 0; the button is up or
\* held down when the machine boots
DebounceInit ==
  /\ InitProgram
  /\ gate = NoGate
  /\ deb \in {[btn |-> b, phase |-> ph, e |-> 0, age |-> 0,
                buttonState |-> "LOW", lastButtonState |-> "HIGH",
                pressed |-> FALSE, count |-> 0, flips |-> 0] :
                  b \in {1, 2}, ph \in {"up", "down"}}

\* one time-unit passes; a bounce lasts LongestBounce time-units at most
DebounceTick ==
  /\ Bouncing => deb.e < LongestBounce
  /\ deb' = [deb EXCEPT !.age = IF @ > debounceDelay THEN @ ELSE @ + 1,
                        !.e = IF Bouncing THEN @ + 1 ELSE @,
                        !.pressed = FALSE]
  /\ UNCHANGED <<progVars, gate>>

PressButton ==
  /\ deb.phase = "up"
  /\ deb' = [deb EXCEPT !.phase = "pressing", !.e = 0, !.count = 0, !.flips = 0,
                        !.pressed = FALSE]
  /\ UNCHANGED <<progVars, gate>>

ReleaseButton ==
  /\ deb.phase = "down"
  /\ deb' = [deb EXCEPT !.phase = "releasing", !.e = 0, !.pressed = FALSE]
  /\ UNCHANGED <<progVars, gate>>

\* the contacts come to rest
SettleButton ==
  /\ Bouncing
  /\ deb' = [deb EXCEPT !.phase = IF @ = "pressing" THEN "down" ELSE "up",
                        !.e = 0, !.pressed = FALSE]
  /\ UNCHANGED <<progVars, gate>>

\* readButtons(): digitalRead gives HIGH while up, LOW while down and either
\* level while the contacts bounce
PollButton ==
  /\ \E reading \in IF deb.phase = "up" THEN {"HIGH"}
                     ELSE IF deb.phase = "down" THEN {"LOW"} ELSE Levels :
       LET d == debounce(deb, reading)
       IN deb' = [d EXCEPT !.count = IF d.pressed /\ @ < 2 THEN @ + 1 ELSE @,
                           !.flips = IF reading # deb.lastButtonState /\ @ < 3
                                     THEN @ + 1 ELSE @]
  /\ UNCHANGED <<progVars, gate>>

DebounceNext ==
  DebounceTick \/ PressButton \/ ReleaseButton \/ SettleButton \/ PollButton

DebounceSpec == DebounceInit /\ [][DebounceNext]_vars

(* ------------------------ gate classification -------------------------- *)
\* GateSpec puts every reading (no echo, or an echo of 0..MaxCm cm) to the
\* gate step of a session on slot gate.slot, once with the servo running and
\* once with the session stopped on an obstruction, and records what the
\* step did: completes = the running session was completed, starts = the
\* stopped session got its servo started.
AllReadings == {NoEcho} \cup {[echo |-> TRUE, cm |-> d] : d \in 0..MaxCm}

\* a session on slotNumber as dispenseProduct() leaves it: started (running)
\* or waiting on an obstruction
SessionOn(slotNumber, running) ==
  LET t == [Cur EXCEPT !.currentState = "STATE_DISPENSING",
                       !.wifiConnected = TRUE, !.productsLoaded = TRUE,
                       !.currentUser = [cardUid |-> "CardA", balance |-> 20],
                       !.continuousDispensing = TRUE,
                       !.continuousSlotNumber = slotNumber,
                       !.servoRunning = running,
                       !.objectDetected = ~running]
  IN IF running THEN startCurrentServo(t) ELSE stopCurrentServo(t)

GateInit ==
  /\ InitProgram
  /\ deb = NoDebounce
  /\ gate \in {[done |-> FALSE, raw |-> r, slot |-> k,
                 completes |-> FALSE, starts |-> FALSE] :
                   r \in AllReadings, k \in SlotValues}

GateProbe ==
  /\ ~gate.done
  /\ LET r == controlServoWithUltrasonic(SessionOn(gate.slot, TRUE), TRUE, gate.raw)
         w == controlServoWithUltrasonic(SessionOn(gate.slot, FALSE), TRUE, gate.raw)
     IN gate' = [gate EXCEPT !.done = TRUE,
                             !.completes = r.completed = 1 /\ ~r.continuousDispensing,
                             !.starts = w.servoRunning]
  /\ UNCHANGED <<progVars, deb>>

GateNext == GateProbe

GateSpec == GateInit /\ [][GateNext]_vars

(* ============================== claims ================================= *)
Rotating(cmd) == cmd # SERVO_STOP
BothStopped == tissueServo = SERVO_STOP /\ sanitaryServo = SERVO_STOP
\* a reading at or below the detection threshold / above it / no echo
IsObstruction(d) == d >= 0 /\ d <= DETECTION_DISTANCE
IsClear(d) == d > DETECTION_DISTANCE
IsInvalid(d) == d = -1
\* the pass of loop() is over
EndOfTick == pc = "wifi"

\* the outcome the evaluation is specified to have for the current user
SpecEvaluate ==
  IF \E i \in 1..Len(products) :
       products[i].stock > 0 /\ products[i].price <= currentUser.balance
  THEN "STATE_PRODUCT_SELECTION"
  ELSE IF \A i \in 1..Len(products) : products[i].price > currentUser.balance
  THEN "STATE_INSUFFICIENT_BALANCE"
  ELSE "STATE_OUT_OF_STOCK"

\* the last step was a scan of a known card that was evaluated: the lookup
\* returned the card's owner, or the card is the current user's and no lookup
\* was needed (a scan during dispensing is ignored)
EvaluatedAfterScan ==
  /\ ev.op = "rfid"
  /\ ev.card # NoCard
  /\ currentState # "STATE_DISPENSING"
  /\ currentUser # NoUser
  /\ currentUser.cardUid = ev.card
  /\ ev.found \/ ev.lookups = 0

\* C1: after a known-card scan the state is ProductSelection iff some product
\* is in stock and affordable, InsufficientBalance iff every price exceeds the
\* balance, and OutOfStock in every remaining case.
C1_EvaluationIsThreeWay == EvaluatedAfterScan => currentState = SpecEvaluate

\* C2: the tissue servo and the sanitary servo are never both commanded to rotate.
C2_AtMostOneServoRotates == ~(Rotating(tissueServo) /\ Rotating(sanitaryServo))

\* C2 witness: a gate step that read Clear has the sanitary servo running for
\* a slot-2 session while the tissue servo is stopped
C2_Witness ==
  /\ continuousDispensing /\ continuousSlotNumber = 2 /\ servoRunning
  /\ sanitaryServo = SERVO_LEFT_SPEED /\ tissueServo = SERVO_STOP
  /\ ev.op = "ctrl" /\ IsClear(ev.dist)

\* C3: at the end of every pass of loop() the state is Dispensing iff a
\* dispense session exists.
C3_DispensingIffSession ==
  EndOfTick => (currentState = "STATE_DISPENSING" <=> continuousDispensing)

\* C4: an Obstruction reading while the servo runs completes the session
\* exactly once: that gate step stops both servos and tears the session down,
\* a completion always consumes a running session, and without a session a
\* gate step (whatever it reads) signals no completion and writes no servo.
C4_ExactlyOneCompletion ==
  [][pc = "ctrl" =>
       /\ (continuousDispensing /\ servoRunning /\ IsObstruction(ev'.dist)
             => /\ ev'.completed = 1
                /\ ~continuousDispensing' /\ ~servoRunning'
                /\ tissueServo' = SERVO_STOP /\ sanitaryServo' = SERVO_STOP)
       /\ (ev'.completed >= 1
             => /\ ev'.completed = 1
                /\ continuousDispensing /\ servoRunning /\ ~continuousDispensing')
       /\ (~continuousDispensing
             => /\ ev'.completed = 0
                /\ ~continuousDispensing'
                /\ UNCHANGED <<tissueServo, sanitaryServo, servoRunning>>)]_vars

\* C4 witness: the gate step that read an obstruction completed the session
C4_Witness ==
  /\ ev.op = "ctrl" /\ IsObstruction(ev.dist) /\ ev.completed = 1
  /\ ~continuousDispensing /\ BothStopped

\* C5: a dispense begun on an Obstruction reading leaves both servos stopped,
\* and from a stopped session a servo starts only in a gate step that reads Clear.
C5_NoStartBeforeClear ==
  [][/\ (ev'.op = "buttons" /\ continuousDispensing' /\ IsObstruction(ev'.dist)
           => /\ tissueServo' = SERVO_STOP /\ sanitaryServo' = SERVO_STOP
              /\ ~servoRunning' /\ objectDetected')
     /\ (continuousDispensing /\ ~servoRunning
         /\ (Rotating(tissueServo') \/ Rotating(sanitaryServo') \/ servoRunning')
           => ev'.op = "ctrl" /\ IsClear(ev'.dist))]_vars

\* C5 witness: a session begun on an obstruction is still stopped after a gate
\* step that read an obstruction or no echo
C5_Witness ==
  /\ ev.op = "ctrl" /\ (IsObstruction(ev.dist) \/ IsInvalid(ev.dist))
  /\ continuousDispensing /\ ~servoRunning /\ objectDetected /\ BothStopped

\* C6: during a dispense session a gate step that reads no echo changes
\* neither servo command nor servoRunning, objectDetected, the session slot,
\* the session itself or the session state.
C6_InvalidChangesNothing ==
  [][pc = "ctrl" /\ continuousDispensing /\ ev'.op = "ctrl" /\ IsInvalid(ev'.dist)
       => UNCHANGED <<tissueServo, sanitaryServo, servoRunning, objectDetected,
                      continuousSlotNumber, continuousDispensing, currentState>>]_vars

\* C6 witness: a gate step read no echo while the servo of the session was running
C6_Witness ==
  /\ ev.op = "ctrl" /\ IsInvalid(ev.dist)
  /\ continuousDispensing /\ servoRunning /\ ~BothStopped

\* C7 as claimed: in no step whose reading is Invalid, periodic or at begin,
\* does a servo go from stopped to rotating.
C7_InvalidNeverStarts ==
  [][IsInvalid(ev'.dist)
       => /\ (Rotating(tissueServo') => Rotating(tissueServo))
          /\ (Rotating(sanitaryServo') => Rotating(sanitaryServo))]_vars

\* C7 amended: a periodic gate step that reads Invalid starts no servo and
\* does not set servoRunning; the reading taken when a dispense begins is the
\* exception: read as Invalid it starts the servo of the slot, as Clear does.
C7_InvalidStartsOnlyAtBegin ==
  [][/\ (ev'.op = "ctrl" /\ IsInvalid(ev'.dist)
           => /\ (Rotating(tissueServo') => Rotating(tissueServo))
              /\ (Rotating(sanitaryServo') => Rotating(sanitaryServo))
              /\ (servoRunning' => servoRunning))
     /\ (ev'.op = "buttons" /\ IsInvalid(ev'.dist) /\ continuousDispensing'
           => /\ servoRunning' /\ ~objectDetected'
              /\ (continuousSlotNumber' = 1 => tissueServo' = SERVO_RIGHT_SPEED)
              /\ (continuousSlotNumber' = 2 => sanitaryServo' = SERVO_LEFT_SPEED))]_vars

\* C7 witness: a stopped session, whose servo a Clear reading would start,
\* is still stopped after a gate step that read no echo
C7_Witness ==
  /\ ev.op = "ctrl" /\ IsInvalid(ev.dist)
  /\ continuousDispensing /\ ~servoRunning /\ BothStopped

\* processPurchase(productIndex) rejects: out of stock, or price above the balance
Rejected(productIndex) ==
  /\ productIndex < Len(products)
  /\ \/ products[productIndex + 1].stock <= 0
     \/ products[productIndex + 1].price > currentUser.balance

\* the button poll is about to run in ProductSelection with a user
SelectionPoll ==
  pc = "buttons" /\ currentState = "STATE_PRODUCT_SELECTION" /\ currentUser # NoUser

\* C8: a purchase attempt for a product that is out of stock or costs more
\* than the balance issues no create_order, starts no servo, creates no
\* session and leaves the balance and every stock unchanged.
C8_RejectedPurchaseIsInert ==
  [][SelectionPoll /\ ev'.op = "buttons" =>
       /\ \A k \in 1..Len(ev'.orders) : ~Rejected(ev'.orders[k].idx)
       /\ ((ev'.b1 /\ Rejected(0)) \/ (~ev'.b1 /\ ev'.b2 /\ Rejected(1))
             => /\ ev'.orders = <<>>
                /\ ~continuousDispensing'
                /\ UNCHANGED <<tissueServo, sanitaryServo, servoRunning, objectDetected,
                               continuousSlotNumber, continuousDispensing,
                               currentUser, products>>)]_vars

\* C8 witness: button 1 was pressed for an out-of-stock first product, no
\* order went out, and the user could still buy the other product
C8_Witness ==
  /\ ev.op = "buttons" /\ ev.b1 /\ ~ev.b2 /\ ev.orders = <<>>
  /\ currentState = "STATE_OUT_OF_STOCK" /\ currentUser # NoUser
  /\ products # <<>> /\ products[1].stock = 0 /\ canPurchase(Cur)
  /\ ~continuousDispensing /\ BothStopped

\* C9: when create_order succeeded in the button poll of this pass, the pass
\* ends in Dispensing with a session on the slot of the ordered product.
C9_ApprovedPurchaseDispenses ==
  EndOfTick /\ ev.op = "buttons" =>
    \A k \in 1..Len(ev.orders) :
      ev.orders[k].ok =>
        /\ currentState = "STATE_DISPENSING"
        /\ continuousDispensing
        /\ continuousSlotNumber = products[ev.orders[k].idx + 1].slotNumber

\* C10 as claimed: when a create_order of the button poll failed, the pass
\* ends logged in, in the logged-in / product-selection state, with no session
\* and no servo started.
C10_FailedOrderLeavesSelection ==
  EndOfTick /\ ev.op = "buttons" /\ (\E k \in 1..Len(ev.orders) : ~ev.orders[k].ok) =>
    /\ currentState \in {"STATE_USER_LOGGED_IN", "STATE_PRODUCT_SELECTION"}
    /\ currentUser # NoUser
    /\ ~continuousDispensing
    /\ BothStopped

\* the failed order is the last thing the poll did: the other button made no
\* purchase attempt of its own after it
FailedOrderIsLast(e) ==
  /\ e.orders # <<>>
  /\ ~e.orders[Len(e.orders)].ok
  /\ ~(e.orders[Len(e.orders)].idx = 0 /\ e.b2 /\ Len(products) > 1)

\* C10 amended: when create_order fails and the other button makes no purchase
\* attempt after it in the same poll, no servo is started, no session is
\* created, balance and stocks are unchanged, the user stays logged in and the
\* pass ends in ProductSelection.
C10_FailedOrderIsNoOp ==
  [][pc = "buttons" /\ ev'.op = "buttons" /\ FailedOrderIsLast(ev') =>
       /\ currentState' = "STATE_PRODUCT_SELECTION"
       /\ currentUser # NoUser
       /\ ~continuousDispensing'
       /\ tissueServo' = SERVO_STOP /\ sanitaryServo' = SERVO_STOP
       /\ UNCHANGED <<currentUser, products, tissueServo, sanitaryServo,
                      servoRunning, objectDetected, continuousSlotNumber,
                      continuousDispensing>>]_vars

\* C10 witness: the only order of the poll failed and the pass ended in
\* ProductSelection with the user still logged in
C10_Witness ==
  /\ EndOfTick /\ ev.op = "buttons" /\ ev.b1 /\ ~ev.b2
  /\ Len(ev.orders) = 1 /\ ~ev.orders[1].ok
  /\ currentState = "STATE_PRODUCT_SELECTION" /\ currentUser # NoUser
  /\ ~continuousDispensing /\ BothStopped

\* C11: for every create_order of a button poll, the balance of the current
\* user and the stock of the ordered product are either both written from the
\* reply or both left alone, and the order is reported successful exactly
\* when both were written.
C11_OrderIsAllOrNothing ==
  \A k \in 1..Len(ev.orders) :
    /\ ev.orders[k].bal <=> ev.orders[k].stk
    /\ ev.orders[k].ok <=> (ev.orders[k].bal /\ ev.orders[k].stk)


\* C12: in a step that starts while a dispense session exists no create_order
\* is issued and no dispense is begun, whatever card, buttons, echo or WiFi
\* status the step meets; a session that lasts keeps its slot; and within one
\* button poll nothing is ordered after an order that succeeded.
C12_NoPurchaseDuringSession ==
  [][/\ (continuousDispensing
           => /\ ev'.orders = <<>>
              /\ (ev'.op = "buttons" => ev'.dist = NoReading)
              /\ (continuousDispensing' => continuousSlotNumber' = continuousSlotNumber))
     /\ \A k \in 1..Len(ev'.orders) : ev'.orders[k].ok => k = Len(ev'.orders)]_vars

\* C12 witness: a button poll that met a session with button 2 pressed and
\* two products in the catalog ended it without ordering anything
C12_Witness ==
  /\ ev.op = "buttons" /\ ~ev.b1 /\ ev.b2 /\ ev.ended = 1 /\ ev.orders = <<>>
  /\ Len(products) > 1 /\ currentUser # NoUser /\ canPurchase(Cur)
  /\ ~continuousDispensing


\* the button poll of this pass began the session that exists now
BegunInThisPoll == ev.op = "buttons" /\ ev.dist # NoReading

\* C13: a dispense session outlasts a pass of loop() only if that pass polled
\* the buttons and neither committed a press: whatever the echo and the WiFi
\* status, a press in a pass that meets a session has it ended (servos
\* stopped, session cleared) when the pass is over.
C13_PressAbortsSession ==
  EndOfTick /\ continuousDispensing /\ ~BegunInThisPoll
    => ev.op = "buttons" /\ ~ev.b1 /\ ~ev.b2


\* the state the affordability evaluation is specified to give for user
\* against the catalog prods; Idle when there is no user
EvaluateFor(user, prods) ==
  IF user = NoUser THEN "STATE_IDLE"
  ELSE IF \E i \in 1..Len(prods) : prods[i].stock > 0 /\ prods[i].price <= user.balance
  THEN "STATE_PRODUCT_SELECTION"
  ELSE IF \A i \in 1..Len(prods) : prods[i].price > user.balance
  THEN "STATE_INSUFFICIENT_BALANCE"
  ELSE "STATE_OUT_OF_STOCK"

\* C14 as claimed: the gate step that completes a dispense leaves the state
\* the affordability evaluation gives for the user who was logged in when the
\* completion occurred, and Idle only when nobody was.
C14_CompletionReevaluates ==
  [][currentState = "STATE_DISPENSING" /\ ev'.op = "ctrl" /\ ev'.completed = 1
       => currentState' = EvaluateFor(currentUser, products')]_vars

\* C14 amended: the gate step that completes a dispense logs the user out and
\* leaves Idle, not waiting for a card, whatever that user could still
\* afford; catalog and last scanned card are untouched.
C14_CompletionRestartsToIdle ==
  [][ev'.op = "ctrl" /\ ev'.completed = 1
       => /\ currentUser # NoUser
          /\ currentUser' = NoUser
          /\ currentState' = "STATE_IDLE"
          /\ ~waitingForCard'
          /\ UNCHANGED <<products, lastScannedUID>>]_vars

\* C14 witness: a dispense was completed while a product that every balance
\* can pay for is still in stock, and the machine is Idle without a user
C14_Witness ==
  /\ ev.op = "ctrl" /\ ev.completed = 1
  /\ \E i \in 1..Len(products) :
        products[i].stock > 0 /\ \A b \in Balances : products[i].price <= b
  /\ currentState = "STATE_IDLE" /\ currentUser = NoUser /\ wifiConnected

\* C15 as claimed: a button press that aborts a dispense session (and is the only press
\* of the poll) leaves the state the affordability evaluation gives for the
\* current user, and Idle only when there is none.
C15_AbortReevaluates ==
  ev.op = "buttons" /\ ev.ended = 1 /\ ~(ev.b1 /\ ev.b2)
    => currentState = EvaluateFor(currentUser, products)


\* C15 amended: a button press that aborts a dispense session (and is the
\* only press of the poll) keeps the user and leaves Idle when some product is
\* in stock and affordable, InsufficientBalance when every price exceeds the
\* balance, and OutOfStock otherwise.
C15_AbortAsksForCardAgain ==
  ev.op = "buttons" /\ ev.ended = 1 /\ ~(ev.b1 /\ ev.b2)
    => /\ currentUser # NoUser
       /\ ~continuousDispensing /\ BothStopped
       /\ currentState =
            IF EvaluateFor(currentUser, products) = "STATE_PRODUCT_SELECTION"
            THEN "STATE_IDLE"
            ELSE EvaluateFor(currentUser, products)

\* C15 witness: button 1 aborted the session of a user who can still buy, and
\* the machine is Idle with that user
C15_Witness ==
  /\ ev.op = "buttons" /\ ev.b1 /\ ~ev.b2 /\ ev.ended = 1
  /\ currentUser # NoUser /\ canPurchase(Cur)
  /\ currentState = "STATE_IDLE" /\ ~continuousDispensing


\* a user is logged out, or nothing about the user changes
UserKeptOrGone == currentUser' = currentUser \/ currentUser' = NoUser

\* C16: the balance of the current user is written only by a card scan whose
\* lookup returned a user or by a button poll with an order whose reply wrote
\* it; a stock is written only by the catalog fetch that succeeded or by a
\* button poll with a successful order.  The WiFi check, the gate step (also
\* when it completes the dispense) and a button poll without order (also
\* when it aborts the dispense) leave every stock and the balance as they are.
C16_LedgerFrame ==
  [][/\ (~UserKeptOrGone
           => \/ ev'.op = "rfid" /\ ev'.found
              \/ ev'.op = "buttons" /\ \E k \in 1..Len(ev'.orders) : ev'.orders[k].bal)
     /\ (products' # products
           => \/ ev'.op = "setup" /\ productsLoaded'
              \/ ev'.op = "buttons" /\ \E k \in 1..Len(ev'.orders) : ev'.orders[k].ok)
     /\ (ev'.op \in {"wifi", "ctrl"} \/ (ev'.op = "buttons" /\ ev'.orders = <<>>)
           => products' = products /\ UserKeptOrGone)]_vars

\* C16 witness: the reply to the order of button 1 wrote balance 20 and stock
\* 0 into the ledger
C16_Witness ==
  /\ ev.op = "buttons" /\ Len(ev.orders) = 1
  /\ ev.orders[1].ok /\ ev.orders[1].bal /\ ev.orders[1].stk /\ ev.orders[1].idx = 0
  /\ currentUser # NoUser /\ currentUser.balance = 20
  /\ products[1].stock = 0


\* C17: card and buttons are polled only while wifiConnected and
\* productsLoaded: a card scan or button poll, a user lookup, a create_order
\* and the begin of a dispense happen in no other state, and a pass made
\* without them ends after the gate step.
C17_NoServiceWithoutCatalog ==
  /\ (pc \in {"rfid", "buttons"} => wifiConnected /\ productsLoaded)
  /\ (ev.op \in {"rfid", "buttons"} \/ ev.lookups > 0 \/ ev.orders # <<>>
        => wifiConnected /\ productsLoaded)
  /\ (ev.op \in {"wifi", "ctrl", "setup"}
        => ev.lookups = 0 /\ ev.orders = <<>> /\ ev.ended = 0)

\* C17 witness: WiFi is connected but no catalog is loaded, and the pass
\* ended after the gate step, in Idle, without polling card or buttons
C17_Witness ==
  /\ EndOfTick /\ ev.op = "ctrl"
  /\ wifiConnected /\ ~productsLoaded
  /\ currentState = "STATE_IDLE" /\ currentUser = NoUser /\ ~continuousDispensing


\* C18: whenever WiFi is connected and no catalog is loaded, the loop gets
\* the catalog loaded (and with it card and buttons served again) unless the
\* connection is lost again first.
C18_CatalogEventuallyLoaded ==
  (wifiConnected /\ ~productsLoaded) ~> (productsLoaded \/ ~wifiConnected)


\* C19: between the begin of one physical press and the begin of the next the
\* press handler of the button is called at most once, however the level
\* bounces (for up to debounceDelay - 1 time-units) at the press and at the
\* release; the handler is called only by a poll that reads LOW and commits
\* LOW, never by the one that commits the release.
C19_OneEventPerPress ==
  /\ deb.count <= 1
  /\ (deb.pressed => deb.buttonState = "LOW" /\ deb.lastButtonState = "LOW")

\* C19 witness: a press whose bounces the polls saw has been released and the
\* release committed; the handler was called once
C19_Witness ==
  /\ deb.phase = "up" /\ deb.count = 1 /\ deb.flips = 3
  /\ deb.buttonState = "HIGH" /\ deb.lastButtonState = "HIGH"


\* C20: when the card poll of a pass scans an unregistered card in a state
\* that accepts card scans, and no button is pressed in that pass, the pass
\* ends in Idle.
C20_UnknownCardLeavesIdle ==
  [][(/\ pc = "buttons" /\ ev.op = "rfid"
      /\ ev.card # NoCard /\ ev.card \notin RegisteredCards
      /\ currentState # "STATE_DISPENSING"
      /\ ev'.op = "buttons" /\ ~ev'.b1 /\ ~ev'.b2)
       => currentState' = "STATE_IDLE"]_vars


\* C21: a card poll made in Dispensing, whatever card it reads, issues no
\* user lookup and leaves the state, the current user, the session (flag,
\* slot, servoRunning, objectDetected) and both servo commands unchanged.
C21_ScanIgnoredWhileDispensing ==
  [][pc = "rfid" /\ currentState = "STATE_DISPENSING"
       => /\ ev'.lookups = 0
          /\ UNCHANGED <<currentState, currentUser, continuousDispensing,
                         continuousSlotNumber, servoRunning, objectDetected,
                         tissueServo, sanitaryServo, waitingForCard, products>>]_vars

\* C21 witness: the card of another registered user was read while the servo
\* of the session was running
C21_Witness ==
  /\ ev.op = "rfid" /\ ev.card \in RegisteredCards /\ ev.lookups = 0
  /\ currentState = "STATE_DISPENSING" /\ continuousDispensing /\ servoRunning
  /\ currentUser # NoUser /\ currentUser.cardUid # ev.card
  /\ lastScannedUID = ev.card


\* the session is stopped on an obstruction it has seen
StoppedOnObstruction == continuousDispensing /\ ~servoRunning /\ objectDetected

\* C22: for a session that is stopped with objectDetected set, a gate step
\* that reads Clear starts the servo of the session's slot and no other and
\* resets objectDetected; one that reads Obstruction changes nothing and
\* signals no completion.
C22_StoppedStartsOnClearOnly ==
  [][pc = "ctrl" /\ StoppedOnObstruction
       => /\ (IsClear(ev'.dist)
                => /\ servoRunning' /\ ~objectDetected' /\ continuousDispensing'
                   /\ continuousSlotNumber' = continuousSlotNumber
                   /\ (continuousSlotNumber = 1
                         => tissueServo' = SERVO_RIGHT_SPEED
                            /\ sanitaryServo' = SERVO_STOP)
                   /\ (continuousSlotNumber = 2
                         => sanitaryServo' = SERVO_LEFT_SPEED
                            /\ tissueServo' = SERVO_STOP)
                   /\ ev'.completed = 0)
          /\ (IsObstruction(ev'.dist)
                => /\ ev'.completed = 0
                   /\ UNCHANGED <<tissueServo, sanitaryServo, servoRunning,
                                  objectDetected, continuousDispensing,
                                  continuousSlotNumber, currentState,
                                  currentUser>>)]_vars

\* C22 witness: a gate step read an obstruction at the threshold for a
\* stopped session and completed nothing
C22_Witness ==
  /\ ev.op = "ctrl" /\ ev.dist = DETECTION_DISTANCE /\ ev.completed = 0
  /\ StoppedOnObstruction /\ BothStopped
  /\ currentState = "STATE_DISPENSING" /\ currentUser # NoUser


\* what the gate made of the reading: Obstruction completes the running
\* session, Clear starts the stopped one, Invalid does neither
GateClass ==
  IF gate.completes /\ ~gate.starts THEN "Obstruction"
  ELSE IF gate.starts /\ ~gate.completes THEN "Clear"
  ELSE IF ~gate.starts /\ ~gate.completes THEN "Invalid"
  ELSE "Both"

\* C23: no echo is Invalid; an echo of 2..30 cm is Obstruction, 30 cm
\* included; one of more than 30 and up to 400 cm is Clear; one of less than
\* 2 or more than 400 cm is Clear as well.
C23_GateClassification ==
  gate.done =>
    GateClass =
      IF ~gate.raw.echo THEN "Invalid"
      ELSE IF 2 <= gate.raw.cm /\ gate.raw.cm <= 30 THEN "Obstruction"
      ELSE IF 30 < gate.raw.cm /\ gate.raw.cm <= 400 THEN "Clear"
      ELSE "Clear"

\* C23 witness: an echo of 1 cm, nearer than the sensor can measure, was
\* classified Clear
C23_Witness ==
  gate.done /\ gate.raw.echo /\ gate.raw.cm = 1 /\ GateClass = "Clear"


\* C24: a button poll in which one button is pressed and an order succeeds
\* begins the dispense on slot 1 when the button is button 1 and on slot 2
\* when it is button 2, whatever the catalog; button 2 orders nothing when
\* the catalog has fewer than two products.
C24_ButtonSelectsSlot ==
  ev.op = "buttons" /\ ev.b1 # ev.b2 =>
    /\ ((\E k \in 1..Len(ev.orders) : ev.orders[k].ok)
          => continuousDispensing
             /\ continuousSlotNumber = IF ev.b1 THEN 1 ELSE 2)
    /\ (ev.b2 /\ Len(products) < 2 => ev.orders = <<>>)


\* C25 as claimed: a button poll made in OutOfStock, whatever is pressed,
\* leaves the state OutOfStock and the current user unchanged.
C25_OutOfStockButtonsNoOp ==
  [][pc = "buttons" /\ currentState = "STATE_OUT_OF_STOCK"
       => currentState' = "STATE_OUT_OF_STOCK" /\ UNCHANGED currentUser]_vars

\* C25 amended: in OutOfStock button 1 is a no-op and button 2 leads to Idle;
\* neither changes the current user, the catalog, the session or a servo
\* command, and neither orders anything.
C25_OutOfStockButton2ToIdle ==
  [][pc = "buttons" /\ currentState = "STATE_OUT_OF_STOCK"
       => /\ currentState' = IF ev'.b2 THEN "STATE_IDLE" ELSE "STATE_OUT_OF_STOCK"
          /\ ev'.orders = <<>>
          /\ UNCHANGED <<currentUser, products, waitingForCard, lastScannedUID,
                         continuousDispensing, continuousSlotNumber, servoRunning,
                         objectDetected, tissueServo, sanitaryServo>>]_vars

\* C25 witness: button 2 alone was pressed and left Idle with a user who has
\* the balance for a product while no product is in stock
C25_Witness ==
  /\ ev.op = "buttons" /\ ~ev.b1 /\ ev.b2 /\ ev.orders = <<>>
  /\ currentState = "STATE_IDLE" /\ currentUser # NoUser
  /\ hasBalance(Cur) /\ ~hasStock(Cur) /\ ~waitingForCard


LoggedInStates == {"STATE_USER_LOGGED_IN", "STATE_PRODUCT_SELECTION",
                   "STATE_INSUFFICIENT_BALANCE", "STATE_OUT_OF_STOCK"}

\* the scan evaluated the user it leaves against the catalog: ProductSelection
\* when that user can pay for a product in stock, InsufficientBalance when
\* every price exceeds the balance, OutOfStock when nothing is in stock
EvaluatedForUserLeft ==
  /\ (EvaluateFor(currentUser', products') = "STATE_PRODUCT_SELECTION"
        => currentState' = "STATE_PRODUCT_SELECTION")
  /\ (EvaluateFor(currentUser', products') = "STATE_INSUFFICIENT_BALANCE"
        => currentState' = "STATE_INSUFFICIENT_BALANCE")
  /\ (EvaluateFor(currentUser', products') = "STATE_OUT_OF_STOCK"
      /\ (\A i \in 1..Len(products') : products'[i].stock <= 0)
        => currentState' = "STATE_OUT_OF_STOCK")

\* C26: in a logged-in state a scan of the current user's own card issues no
\* lookup, keeps user, balance and stocks and evaluates against them; a scan
\* of another registered card issues one lookup, and when it returns a user,
\* that user with the balance returned becomes the current user and is the
\* one the evaluation is made for.
C26_RescanWithoutLookup ==
  [][(pc = "rfid" /\ currentState \in LoggedInStates /\ currentUser # NoUser
      /\ ev'.op = "rfid" /\ ev'.card # NoCard)
       => /\ (ev'.card = currentUser.cardUid
                => /\ ev'.lookups = 0
                   /\ UNCHANGED <<currentUser, products>>
                   /\ EvaluatedForUserLeft)
          /\ (ev'.card # currentUser.cardUid /\ ev'.card \in RegisteredCards
                => /\ ev'.lookups = 1
                   /\ UNCHANGED products
                   /\ (ev'.found => /\ currentUser' # NoUser
                                     /\ currentUser'.cardUid = ev'.card
                                     /\ currentUser'.balance \in Balances
                                     /\ EvaluatedForUserLeft)
                   /\ (~ev'.found => UNCHANGED <<currentUser, currentState>>))]_vars

\* C26 witness: the current user's card was scanned again, no lookup went
\* out and the evaluation gave ProductSelection
C26_Witness ==
  /\ ev.op = "rfid" /\ ev.card # NoCard /\ ev.lookups = 0
  /\ currentUser # NoUser /\ currentUser.cardUid = ev.card
  /\ currentState = "STATE_PRODUCT_SELECTION" /\ wifiConnected


\* C27: in the state a completing gate step leaves there is no current user,
\* the state is Idle, both servos are commanded to stop and the session is
\* cleared: no session, slot 0, servoRunning and objectDetected false.
C27_AfterCompletion ==
  ev.op = "ctrl" /\ ev.completed >= 1
    => /\ currentUser = NoUser
       /\ currentState = "STATE_IDLE"
       /\ tissueServo = SERVO_STOP /\ sanitaryServo = SERVO_STOP
       /\ ~continuousDispensing /\ continuousSlotNumber = 0
       /\ ~servoRunning /\ ~objectDetected

\* C27 witness: the gate step read an obstruction at the threshold and
\* completed the dispense of a user whose card was the last one scanned
C27_Witness ==
  /\ ev.op = "ctrl" /\ ev.completed = 1 /\ ev.dist = DETECTION_DISTANCE
  /\ currentUser = NoUser /\ continuousSlotNumber = 0
  /\ lastScannedUID \in RegisteredCards /\ wifiConnected /\ productsLoaded


\* the last step was a gate step that read Clear / Obstruction
ClearRead == ev.op = "ctrl" /\ IsClear(ev.dist)
ObstructionRead == ev.op = "ctrl" /\ IsObstruction(ev.dist)
\* the session is gone and both servos are stopped, by a completing gate
\* step or by a button press that aborted it
SessionTornDown ==
  /\ ~continuousDispensing /\ BothStopped /\ ~servoRunning
  /\ \/ ev.op = "ctrl" /\ ev.completed = 1
     \/ ev.op = "buttons" /\ ev.ended >= 1

\* C28: when the gate keeps getting Clear readings and keeps getting
\* Obstruction readings, every dispense session ends: the servo is stopped
\* and the session torn down, by the completion signalled on an Obstruction
\* read while the servo runs (or before that by an aborting button press).
C28_SessionTerminates ==
  ([]<>ClearRead /\ []<>ObstructionRead)
    => (continuousDispensing ~> SessionTornDown)

\* C28 witness: a dispense was completed by the gate step although WiFi and
\* catalog had been lost during the session
C28_Witness ==
  /\ ObstructionRead /\ ev.completed = 1
  /\ ~continuousDispensing /\ BothStopped
  /\ ~productsLoaded /\ currentState = "STATE_IDLE"


\* C29: at the end of every pass a servo is commanded to rotate only if a
\* session exists, servoRunning is set and the servo is the one of the
\* session's slot; without a session both servos are commanded to stop, the
\* slot is 0 and servoRunning and objectDetected are false.
C29_BookkeepingMatchesCommands ==
  EndOfTick =>
    /\ (Rotating(tissueServo)
          => continuousDispensing /\ servoRunning /\ continuousSlotNumber = 1)
    /\ (Rotating(sanitaryServo)
          => continuousDispensing /\ servoRunning /\ continuousSlotNumber = 2)
    /\ (~continuousDispensing
          => /\ BothStopped /\ continuousSlotNumber = 0
             /\ ~servoRunning /\ ~objectDetected)

\* C29 witness: a pass ended, after a button poll without press, with the
\* tissue servo rotating for a running session on slot 1
C29_Witness ==
  /\ EndOfTick /\ ev.op = "buttons" /\ ~ev.b1 /\ ~ev.b2
  /\ continuousDispensing /\ servoRunning /\ continuousSlotNumber = 1
  /\ tissueServo = SERVO_RIGHT_SPEED /\ sanitaryServo = SERVO_STOP


\* C30: whenever a button poll requests an order, the card id of the current
\* user at that moment equals the last scanned card id.
C30_OrderForLastScannedCard ==
  [][(ev'.op = "buttons" /\ ev'.orders # <<>>)
       => (currentUser # NoUser /\ currentUser.cardUid = lastScannedUID)]_vars


\* C31: between any two handlers, and so at the end of every pass, the state
\* is not STATE_USER_LOGGED_IN; and within a button poll the state button 1
\* leaves for button 2 is not STATE_USER_LOGGED_IN either, so no button
\* handler ever runs its STATE_USER_LOGGED_IN branch.
C31_NeverLoggedInAtEndOfTick ==
  /\ currentState # "STATE_USER_LOGGED_IN"
  /\ pc = "buttons"
       => \A in1 \in PurchaseInputs(Cur, 0) :
            button1Pressed(Cur, in1.resp, in1.raw).currentState
              # "STATE_USER_LOGGED_IN"

\* C31 witness: a pass ended in ProductSelection after a button poll whose
\* order was refused, the route that assigns STATE_USER_LOGGED_IN and
\* re-evaluates
C31_Witness ==
  /\ EndOfTick /\ ev.op = "buttons"
  /\ \E i \in 1..Len(ev.orders) : ~ev.orders[i].ok
  /\ currentUser # NoUser /\ currentState = "STATE_PRODUCT_SELECTION"


\* C32: when both buttons commit a press in the same button poll and the
\* order placed by button 1 in ProductSelection succeeded, the session it began
\* still exists at the end of the pass, in Dispensing.
C32_PurchaseSurvivesSamePoll ==
  (/\ EndOfTick /\ ev.op = "buttons" /\ ev.b1 /\ ev.b2
   /\ ev.orders # <<>> /\ ev.orders[1].idx = 0 /\ ev.orders[1].ok)
    => (continuousDispensing /\ currentState = "STATE_DISPENSING")

====
